---- MODULE Spec2Model ----
(***************************************************************************)
(* A model of sysinfo.py: the snapshot aggregator get_sysinfo, its five    *)
(* sub-queries and the unit conversion bytes_to_gb.                        *)
(*                                                                         *)
(* Representation of Python values.                                        *)
(*   exceptions   [cls |-> class name, args |-> message]; str(e) = e.args  *)
(*   call outcome Ok(v) or Raise(e)                                        *)
(*   None         PyNone                                                   *)
(*   int          PyInt(n); a byte count is a two-digit integer in base    *)
(*                2^30 (CPython's own digit size), [hi |-> h, lo |-> l]    *)
(*                standing for h * 2^30 + l, because the counts of         *)
(*                interest do not fit the model checker's 32-bit integers  *)
(*   float        a source reading is a dyadic rational n/8, PyFloat(n);   *)
(*                the result of round(x, 2) is a count of hundredths,      *)
(*                Rounded(h)                                               *)
(*   dict         a record; list: PyList(sequence)                         *)
(***************************************************************************)
EXTENDS Integers, Sequences, FiniteSets, TLC

VARIABLES
    GPU_AVAILABLE,      \* sysinfo.py:15-19, set by the import of GPUtil
    CPUINFO_AVAILABLE,  \* sysinfo.py:21-25, set by the import of cpuinfo
    host,               \* what platform.uname() reports in this process
    pc,                 \* position of the current get_sysinfo invocation
    consumed,           \* the source readings the current invocation has taken
    sections,           \* the sub-query results computed so far
    calls,              \* how often the current invocation ran each sub-query
    result,             \* what the current invocation returned or raised
    lastOutcome,        \* what the previous invocation gave its caller
    nCalls,             \* invocations started so far
    bytes_value,        \* argument of a direct bytes_to_gb call
    gb                  \* its return value

vars == <<GPU_AVAILABLE, CPUINFO_AVAILABLE, host, pc, consumed, sections,
          calls, result, lastOutcome, nCalls, bytes_value, gb>>

----------------------------------------------------------------------------
(* Bounds of the model *)

\* invocations of get_sysinfo in one behaviour
MaxCalls == 2
\* devices the GPU source enumerates at most
MaxGpus == 2
\* whole gibibytes of the small byte counts tried (besides the huge ones)
MaxGiB == 2

----------------------------------------------------------------------------
(* Python values *)

Ok(v) == [raised |-> FALSE, value |-> v]
Raise(e) == [raised |-> TRUE, exc |-> e]
Exception(cls, msg) == [cls |-> cls, args |-> msg]
str(e) == e.args

PyNone == [type |-> "NoneType"]
PyInt(n) == [type |-> "int", v |-> n]
PyFloat(n) == [type |-> "float", eighths |-> n]
Rounded(h) == [type |-> "float", hundredths |-> h]
PyList(s) == [type |-> "list", items |-> s]
PyDict(d) == [type |-> "dict", items |-> d]

IsFloat(x) == x.type = "float"

\* a source call, or a sub-query, that has not been made
NoCall == [called |-> FALSE]

\* 2^15, 2^13, 2^27, 2^28 and 2^30 (= 1024 ** 3, the divisor of bytes_to_gb)
Pow2(n) == 2 ^ n
GiB == 1024 * 1024 * 1024

\* The integer nearest to (q + r/d) with ties to the even integer, 0 <= r < d.
HalfEven(q, r, d) ==
    IF 2 * r > d \/ (2 * r = d /\ q % 2 = 1) THEN q + 1 ELSE q

\* round(x, 2) of a float x = n/8: the float is exact, and CPython's round
\* is the correctly rounded decimal, ties to even.  TypeError for a non-float.
round2(x) ==
    IF IsFloat(x)
    THEN Ok(Rounded(HalfEven((x.eighths * 100) \div 8, (x.eighths * 100) % 8, 8)))
    ELSE Raise(Exception("TypeError", "type NoneType doesn't define __round__ method"))

\* x * 100 of a float x = n/8 (exact in eighths).  TypeError for None.
times100(x) ==
    IF IsFloat(x)
    THEN Ok(PyFloat(x.eighths * 100))
    ELSE Raise(Exception("TypeError", "unsupported operand type(s) for *"))

----------------------------------------------------------------------------
(* bytes_to_gb, sysinfo.py:32-34 *)

\* bytes_value / (1024 ** 3): int true division, correctly rounded to a
\* double (53 significant bits).  Below 2^53 the quotient is exact; from 2^53
\* (hi >= 2^23) the low digit is rounded to a multiple of 2, from 2^54 of 4.
\* The result is the double hi + lo/2^30.
TrueDivGiB(b) ==
    LET unit == IF b.hi < Pow2(23) THEN 1 ELSE IF b.hi < Pow2(24) THEN 2 ELSE 4
        lo   == HalfEven(b.lo \div unit, b.lo % unit, unit) * unit
    IN  IF lo = GiB THEN [hi |-> b.hi + 1, lo |-> 0] ELSE [hi |-> b.hi, lo |-> lo]

\* round(x, 2) of the double x = hi + lo/2^30, as a count of hundredths.
\* lo * 100 / 2^30 = lo * 25 / 2^28, computed in 15-bit limbs.
RoundQuotient(x) ==
    LET a == x.lo \div Pow2(15)
        c == x.lo % Pow2(15)
        t == 25 * a + (25 * c) \div Pow2(15)
        v == (25 * c) % Pow2(15)
        q == t \div Pow2(13)
        r == (t % Pow2(13)) * Pow2(15) + v
    IN  100 * x.hi + HalfEven(q, r, Pow2(28))

bytes_to_gb(b) == Rounded(RoundQuotient(TrueDivGiB(b)))

Bytes(h, l) == [hi |-> h, lo |-> l]

\* byte counts tried: around every eighth of a gibibyte (the odd eighths are
\* exact ties of the rounding), for small counts and for counts around 2^53
\* and 2^54, where the quotient no longer fits a double exactly
LoDigits == {k * Pow2(27) + d : k \in 0..7, d \in {0, 1, 2, 3, 5368709}}
HiDigits == (0..MaxGiB) \cup {Pow2(23) - 1, Pow2(23), Pow2(24)}
ByteCounts == {Bytes(h, l) : h \in HiDigits, l \in LoDigits}

----------------------------------------------------------------------------
(* The data sources.  Each is opaque: a call either returns or raises. *)

\* platform.uname(), which the platform module computes once per process
Hosts ==
    { [system |-> "Windows", node |-> "desk", release |-> "10",
       version |-> "10.0.19045", machine |-> "AMD64",
       processor |-> "Intel64 Family 6 Model 158 Stepping 10, GenuineIntel"],
      [system |-> "Linux", node |-> "box", release |-> "6.1.0",
       version |-> "#1 SMP", machine |-> "x86_64", processor |-> "x86_64"],
      [system |-> "Linux", node |-> "box", release |-> "6.1.0",
       version |-> "#1 SMP", machine |-> "x86_64", processor |-> ""] }

\* psutil.cpu_count(): a count, or None when it cannot be determined
CoreCounts == { [physical |-> PyNone, logical |-> PyNone],
                [physical |-> PyInt(2), logical |-> PyInt(4)] }

\* psutil.cpu_percent(interval=0.1): 0.0 % or 37.5 %, or the OS query fails
CpuPercents ==
    { Ok(PyFloat(0)), Ok(PyFloat(300)),
      Raise(Exception("FileNotFoundError", "No such file: /proc/stat")) }

\* psutil.cpu_freq(): None where the platform exposes no frequency, else a
\* record whose current is 2400.125 MHz; or the query fails
CpuFreqs ==
    { Ok(PyNone), Ok([type |-> "scpufreq", current |-> PyFloat(19201)]),
      Raise(Exception("NotImplementedError", "can't find current frequency file")) }

\* cpuinfo.get_cpu_info(): a dict with or without brand_raw, or it fails
CpuInfos ==
    { Ok([arch |-> "X86_64", brand_raw |-> "Intel(R) Core(TM) i7-8700 CPU"]),
      Ok([arch |-> "X86_64", brand_raw |-> ""]),
      Ok([arch |-> "X86_64"]),
      Raise(Exception("Exception", "cpuinfo failed")) }

CpuOffers ==
    { [cpu_count |-> c, cpu_percent |-> p, cpu_freq |-> f, cpuinfo |-> i] :
        c \in CoreCounts, p \in CpuPercents, f \in CpuFreqs, i \in CpuInfos }

\* psutil.virtual_memory()
MemoryOffers ==
    { Ok([total |-> Bytes(16, 0), available |-> Bytes(9, 5 * Pow2(27)),
          used |-> Bytes(6, 3 * Pow2(27) + 1), percent |-> PyFloat(325)]),
      Ok([total |-> Bytes(1, 0), available |-> Bytes(0, 0),
          used |-> Bytes(1, 0), percent |-> PyFloat(800)]),
      Raise(Exception("FileNotFoundError", "No such file: /proc/meminfo")) }

\* psutil.disk_usage(path), for the two paths of the code.  The path that is
\* not the host's root does not exist.
DiskUsages ==
    { Ok([total |-> Bytes(2, 0), used |-> Bytes(0, Pow2(27)),
          free |-> Bytes(1, 7 * Pow2(27)), percent |-> PyFloat(50)]),
      Ok([total |-> Bytes(1, 1), used |-> Bytes(1, 0),
          free |-> Bytes(0, 1), percent |-> PyFloat(800)]),
      Raise(Exception("PermissionError", "Permission denied")) }

NativeRoot(h) == IF h.system = "Windows" THEN "C:\\" ELSE "/"

DiskOffers ==
    { [path \in {"C:\\", "/"} |->
          IF path = NativeRoot(host) THEN u
          ELSE Raise(Exception("FileNotFoundError", "No such file or directory"))] :
        u \in DiskUsages }

\* GPUtil.getGPUs(): the devices, each with the fields the code reads.  A
\* device whose load the provider could not determine has load None.
Devices ==
    { [id |-> 0, name |-> "GeForce RTX 3080", memoryTotal |-> PyFloat(81921),
       memoryUsed |-> PyFloat(8195), memoryFree |-> PyFloat(73726),
       load |-> PyFloat(3), temperature |-> PyFloat(500)],
      [id |-> 1, name |-> "Tesla T4", memoryTotal |-> PyFloat(120000),
       memoryUsed |-> PyFloat(0), memoryFree |-> PyFloat(120000),
       load |-> PyFloat(8), temperature |-> PyFloat(281)],
      [id |-> 2, name |-> "GeForce GT 710", memoryTotal |-> PyFloat(16384),
       memoryUsed |-> PyFloat(8), memoryFree |-> PyFloat(16376),
       load |-> PyNone, temperature |-> PyFloat(320)] }

DeviceLists == UNION { [1..n -> Devices] : n \in 0..MaxGpus }

GpuOffers ==
    { Ok(l) : l \in DeviceLists }
      \cup { Raise(Exception("FileNotFoundError", "nvidia-smi not found")) }

----------------------------------------------------------------------------
(* The sub-queries.  One that reads an optional or failing source returns  *)
(* [out |-> Ok(value) or Raise(e), used |-> the source calls it made].     *)

\* sysinfo.py:37-47
get_system_info(uname) ==
    [system_name  |-> uname.system,
     node_name    |-> uname.node,
     os_release   |-> uname.release,
     os_version   |-> uname.version,
     machine_type |-> uname.machine,
     processor    |-> uname.processor]

\* platform.processor() or "Unknown"
processor_or_unknown ==
    IF host.processor # "" THEN host.processor ELSE "Unknown"

\* info.get("brand_raw", "Unknown")
brand_or_unknown(info) ==
    IF "brand_raw" \in DOMAIN info THEN info.brand_raw ELSE "Unknown"

\* sysinfo.py:63-71
processor_name(cpuinfo) ==
    IF CPUINFO_AVAILABLE
    THEN IF cpuinfo.raised THEN processor_or_unknown
         ELSE brand_or_unknown(cpuinfo.value)
    ELSE processor_or_unknown

\* sysinfo.py:55, the reading get_cpu_info reports as cpu_usage_percent
sample_cpu_percent_cached(o) ==
    IF lastOutcome.kind = "snapshot" THEN Ok(lastOutcome.cpu_usage_percent)
    ELSE o.cpu_percent

sample_cpu_percent(o) == o.cpu_percent

\* bool(cpu_freq) of sysinfo.py:60: None where no frequency is exposed
exposes_frequency(cpu_freq) == cpu_freq.type # "NoneType"

with_frequency_always(cpu_data, cpu_freq) ==
    cpu_data @@ ("cpu_frequency_mhz" :>
        IF exposes_frequency(cpu_freq) THEN round2(cpu_freq.current).value
        ELSE PyNone)

\* sysinfo.py:59-61
with_frequency(cpu_data, cpu_freq) ==
    IF exposes_frequency(cpu_freq)
    THEN cpu_data @@ ("cpu_frequency_mhz" :> round2(cpu_freq.current).value)
    ELSE cpu_data

\* sysinfo.py:50-73.  No call of it is guarded: an error of cpu_percent or
\* cpu_freq propagates.
get_cpu_info(o) ==
    LET percent == sample_cpu_percent(o)
        got_percent == ~percent.raised
        got_freq == got_percent /\ ~o.cpu_freq.raised
        used == [cpu_count   |-> o.cpu_count,
                 cpu_percent |-> o.cpu_percent,
                 cpu_freq    |-> IF got_percent THEN o.cpu_freq ELSE NoCall,
                 cpuinfo     |-> IF got_freq /\ CPUINFO_AVAILABLE
                                 THEN o.cpuinfo ELSE NoCall]
        cpu_data == [physical_cores    |-> o.cpu_count.physical,
                     logical_cores     |-> o.cpu_count.logical,
                     cpu_usage_percent |-> percent.value]
    IN  IF ~got_percent THEN [out |-> Raise(percent.exc), used |-> used]
        ELSE IF ~got_freq THEN [out |-> Raise(o.cpu_freq.exc), used |-> used]
        ELSE [out |-> Ok(with_frequency(cpu_data, o.cpu_freq.value)
                           @@ ("processor_name" :> processor_name(o.cpuinfo))),
              used |-> used]

\* sysinfo.py:76-84.  Unguarded: an error of virtual_memory propagates.
get_memory_info(mem) ==
    IF mem.raised THEN Raise(mem.exc)
    ELSE Ok([total_gb            |-> bytes_to_gb(mem.value.total),
             available_gb        |-> bytes_to_gb(mem.value.available),
             used_gb             |-> bytes_to_gb(mem.value.used),
             utilization_percent |-> mem.value.percent])

\* sysinfo.py:91-94, the root partition of the platform
root_path == IF host.system = "Windows" THEN "C:\\" ELSE "/"

get_disk_info_unguarded(disk_usage) ==
    LET disk == disk_usage[root_path]
    IN  IF disk.raised THEN Raise(disk.exc)
        ELSE Ok([total_gb            |-> bytes_to_gb(disk.value.total),
                 used_gb             |-> bytes_to_gb(disk.value.used),
                 free_gb             |-> bytes_to_gb(disk.value.free),
                 utilization_percent |-> disk.value.percent])

\* sysinfo.py:87-103: every exception becomes {"error": str(e)}
get_disk_info(disk_usage) ==
    LET disk == disk_usage[root_path]
    IN  IF disk.raised THEN Ok([error |-> str(disk.exc)])
        ELSE Ok([total_gb            |-> bytes_to_gb(disk.value.total),
                 used_gb             |-> bytes_to_gb(disk.value.used),
                 free_gb             |-> bytes_to_gb(disk.value.free),
                 utilization_percent |-> disk.value.percent])

\* the dict of sysinfo.py:118-126 for one device; the first conversion that
\* raises, in the order the dict display evaluates them, ends it
gpu_entry_unscaled(gpu) ==
    LET total == round2(gpu.memoryTotal)
        used  == round2(gpu.memoryUsed)
        free  == round2(gpu.memoryFree)
    IN  IF total.raised THEN total
        ELSE IF used.raised THEN used
        ELSE IF free.raised THEN free
        ELSE IF ~IsFloat(gpu.load) THEN times100(gpu.load)
        ELSE Ok([id |-> gpu.id, name |-> gpu.name,
                 memory_total_mb |-> total.value,
                 memory_used_mb  |-> used.value,
                 memory_free_mb  |-> free.value,
                 gpu_utilization_percent |-> gpu.load,
                 temperature_c |-> gpu.temperature])

gpu_entry(gpu) ==
    LET total == round2(gpu.memoryTotal)
        used  == round2(gpu.memoryUsed)
        free  == round2(gpu.memoryFree)
        util  == times100(gpu.load)
    IN  IF total.raised THEN total
        ELSE IF used.raised THEN used
        ELSE IF free.raised THEN free
        ELSE IF util.raised THEN util
        ELSE Ok([id |-> gpu.id, name |-> gpu.name,
                 memory_total_mb |-> total.value,
                 memory_used_mb  |-> used.value,
                 memory_free_mb  |-> free.value,
                 gpu_utilization_percent |-> util.value,
                 temperature_c |-> gpu.temperature])

\* the devices before the first one whose conversion raises
ConvertedPrefix(gpus) ==
    LET bad == {i \in 1..Len(gpus) : gpu_entry(gpus[i]).raised}
        n   == IF bad = {} THEN Len(gpus)
               ELSE (CHOOSE i \in bad : \A j \in bad : i <= j) - 1
    IN  [i \in 1..n |-> gpu_entry(gpus[i]).value]

gpu_status(text) == PyDict([status |-> text])

convert_gpus_partial(gpus) == PyList(ConvertedPrefix(gpus))

\* sysinfo.py:116-129: the loop, inside the try; an error at any device
\* discards the list built so far
convert_gpus(gpus) ==
    LET bad == {i \in 1..Len(gpus) : gpu_entry(gpus[i]).raised}
    IN  IF bad = {} THEN PyList([i \in 1..Len(gpus) |-> gpu_entry(gpus[i]).value])
        ELSE LET first == CHOOSE i \in bad : \A j \in bad : i <= j
             IN  gpu_status("Error getting GPU info: "
                            \o str(gpu_entry(gpus[first]).exc))

\* "not gpus" of sysinfo.py:113
no_gpus_never(gpus) == FALSE

no_gpus(gpus) == Len(gpus) = 0

\* sysinfo.py:111-129
enumerate_gpus(getGPUs) ==
    IF getGPUs.raised
    THEN gpu_status("Error getting GPU info: " \o str(getGPUs.exc))
    ELSE IF no_gpus(getGPUs.value) THEN gpu_status("No NVIDIA GPU detected")
    ELSE convert_gpus(getGPUs.value)

get_gpu_info_unchecked(getGPUs) ==
    [out |-> Ok(enumerate_gpus(getGPUs)), used |-> getGPUs]

\* sysinfo.py:106-129
get_gpu_info(getGPUs) ==
    IF ~GPU_AVAILABLE
    THEN [out  |-> Ok(gpu_status("GPUtil not installed or no NVIDIA GPU detected")),
          used |-> NoCall]
    ELSE [out |-> Ok(enumerate_gpus(getGPUs)), used |-> getGPUs]

\* the dict display of sysinfo.py:144-150
get_sysinfo(s) ==
    [system |-> s.system, cpu |-> s.cpu, memory |-> s.memory,
     disk |-> s.disk, gpu |-> s.gpu]

----------------------------------------------------------------------------
(* One invocation of get_sysinfo: the five sub-queries in the order of the *)
(* dict display, then the return.  An exception that leaves a sub-query    *)
(* leaves get_sysinfo.                                                     *)

SubQueries == {"system", "cpu", "memory", "disk", "gpu"}

NoResult == [kind |-> "none"]

\* what the caller remembers of an invocation's outcome
Memory(r) ==
    IF r.kind = "snapshot"
    THEN [kind |-> "snapshot", cpu_usage_percent |-> r.value.cpu.cpu_usage_percent]
    ELSE [kind |-> r.kind]

Init ==
    /\ GPU_AVAILABLE \in BOOLEAN
    /\ CPUINFO_AVAILABLE \in BOOLEAN
    /\ host \in Hosts
    /\ pc = "idle"
    /\ consumed = [q \in SubQueries |-> NoCall]
    /\ sections = [q \in SubQueries |-> NoCall]
    /\ calls = [q \in SubQueries |-> 0]
    /\ result = NoResult
    /\ lastOutcome = NoResult
    /\ nCalls = 0
    /\ bytes_value = Bytes(0, 0)
    /\ gb = PyNone

Frame == UNCHANGED <<GPU_AVAILABLE, CPUINFO_AVAILABLE, host, bytes_value, gb>>

\* the caller invokes the tool
Call ==
    /\ pc \in {"idle", "returned", "raised"}
    /\ nCalls < MaxCalls
    /\ nCalls' = nCalls + 1
    /\ pc' = "system"
    /\ lastOutcome' = Memory(result)
    /\ result' = NoResult
    /\ consumed' = [q \in SubQueries |-> NoCall]
    /\ sections' = [q \in SubQueries |-> NoCall]
    /\ calls' = [q \in SubQueries |-> 0]
    /\ Frame

\* sub-query q read `reading` and ended with `out`
Step(q, reading, out, next) ==
    /\ consumed' = [consumed EXCEPT ![q] = reading]
    /\ calls' = [calls EXCEPT ![q] = @ + 1]
    /\ IF out.raised
       THEN /\ pc' = "raised"
            /\ result' = [kind |-> "exception", exc |-> out.exc, in |-> q]
            /\ sections' = sections
       ELSE /\ pc' = next
            /\ result' = result
            /\ sections' = [sections EXCEPT ![q] = out.value]
    /\ UNCHANGED <<lastOutcome, nCalls>>
    /\ Frame

QuerySystem ==
    /\ pc = "system"
    /\ Step("system", host, Ok(get_system_info(host)), "cpu")

QueryCpu ==
    /\ pc = "cpu"
    /\ \E o \in CpuOffers :
          LET r == get_cpu_info(o) IN Step("cpu", r.used, r.out, "memory")

QueryMemory ==
    /\ pc = "memory"
    /\ \E o \in MemoryOffers : Step("memory", o, get_memory_info(o), "disk")

QueryDisk ==
    /\ pc = "disk"
    /\ \E o \in DiskOffers :
          Step("disk", [path |-> root_path, usage |-> o[root_path]],
               get_disk_info(o), "gpu")

QueryGpu ==
    /\ pc = "gpu"
    /\ \E o \in GpuOffers :
          LET r == get_gpu_info(o) IN Step("gpu", r.used, r.out, "return")

Return ==
    /\ pc = "return"
    /\ pc' = "returned"
    /\ result' = [kind |-> "snapshot", value |-> get_sysinfo(sections)]
    /\ UNCHANGED <<consumed, sections, calls, lastOutcome, nCalls>>
    /\ Frame

Next ==
    \/ Call
    \/ QuerySystem
    \/ QueryCpu
    \/ QueryMemory
    \/ QueryDisk
    \/ QueryGpu
    \/ Return

Spec == Init /\ [][Next]_vars

----------------------------------------------------------------------------
(* bytes_to_gb called on its own *)

InitBytes ==
    /\ GPU_AVAILABLE = FALSE /\ CPUINFO_AVAILABLE = FALSE
    /\ host = NoCall
    /\ pc = "bytes_to_gb"
    /\ consumed = NoCall /\ sections = NoCall /\ calls = NoCall
    /\ result = NoCall /\ lastOutcome = NoCall
    /\ nCalls = 0
    /\ bytes_value \in ByteCounts
    /\ gb = PyNone

CallBytesToGb ==
    /\ pc = "bytes_to_gb"
    /\ gb' = bytes_to_gb(bytes_value)
    /\ pc' = "bytes_to_gb_done"
    /\ UNCHANGED <<GPU_AVAILABLE, CPUINFO_AVAILABLE, host, consumed, sections,
                   calls, result, lastOutcome, nCalls, bytes_value>>

NextBytes == CallBytesToGb

SpecBytes == InitBytes /\ [][NextBytes]_vars

----------------------------------------------------------------------------
(* Properties of get_sysinfo and its sub-queries, under Spec *)

Done(q) == calls[q] = 1
RaisedIn(q) == result.kind = "exception" /\ result.in = q
Enumerated == consumed.gpu # NoCall

\* C1: get_sysinfo never fails as a whole: whatever the sub-queries' sources
\* do, no exception escapes an invocation.
C1_NeverFails == result.kind # "exception"

DiskFields == {"total_gb", "used_gb", "free_gb", "utilization_percent"}

C3_GpuUnavailable ==
    (Done("gpu") /\ ~GPU_AVAILABLE) =>
        /\ ~RaisedIn("gpu")
        /\ sections.gpu =
             PyDict([status |-> "GPUtil not installed or no NVIDIA GPU detected"])
        /\ ~Enumerated

C3_Witness == Done("gpu") /\ ~GPU_AVAILABLE /\ pc = "returned"

\* C4: the gpu section is never an empty list: zero detected devices give the
\* no-device status record, and a list is returned only when at least one
\* device was detected.
C4_GpuNeverEmptyList ==
    /\ (Done("gpu") /\ ~RaisedIn("gpu")) =>
          /\ sections.gpu # PyList(<<>>)
          /\ sections.gpu.type = "list" =>
                (Enumerated /\ ~consumed.gpu.raised /\ Len(consumed.gpu.value) >= 1)
          /\ (Enumerated /\ consumed.gpu = Ok(<<>>)) =>
                sections.gpu = PyDict([status |-> "No NVIDIA GPU detected"])
    /\ result.kind = "snapshot" =>
          ~(result.value.gpu.type = "list" /\ Len(result.value.gpu.items) = 0)

C4_Witness ==
    /\ pc = "returned" /\ GPU_AVAILABLE
    /\ consumed.gpu = Ok(<<>>)
    /\ result.value.gpu.type = "dict"

\* the numeric fields of a device that the code rounds or scales
Convertible(gpu) ==
    /\ IsFloat(gpu.memoryTotal) /\ IsFloat(gpu.memoryUsed)
    /\ IsFloat(gpu.memoryFree) /\ IsFloat(gpu.load)

ErrorPrefix == "Error getting GPU info: "
ConversionErrors == {"unsupported operand type(s) for *",
                     "type NoneType doesn't define __round__ method"}

\* C5: if the enumeration, or the conversion of any one device's fields,
\* raises, get_gpu_info returns a status record embedding the error text: it
\* neither propagates the exception nor returns a partial list.
C5_GpuErrorIsStatus ==
    (Done("gpu") /\ Enumerated) =>
        /\ ~RaisedIn("gpu")
        /\ consumed.gpu.raised =>
              sections.gpu = PyDict([status |-> ErrorPrefix \o consumed.gpu.exc.args])
        /\ (~consumed.gpu.raised
              /\ \E i \in 1..Len(consumed.gpu.value) :
                    ~Convertible(consumed.gpu.value[i])) =>
              \E e \in ConversionErrors :
                  sections.gpu = PyDict([status |-> ErrorPrefix \o e])

\* a failure at the second device, after the first was converted
C5_Witness ==
    /\ Done("gpu") /\ Enumerated /\ ~consumed.gpu.raised
    /\ Len(consumed.gpu.value) = 2
    /\ Convertible(consumed.gpu.value[1])
    /\ ~Convertible(consumed.gpu.value[2])
    /\ sections.gpu.type = "dict"

PlatformName == IF host.processor # "" THEN host.processor ELSE "Unknown"

\* C6: every CPU result has a processor_name chosen by fallback: the brand
\* string of the hardware-detail source when it is installed and succeeds,
\* else the platform's processor string, and "Unknown" when no source yields
\* a non-empty name; processor_name is never the empty string.
C6_ProcessorNameFallback ==
    (Done("cpu") /\ ~RaisedIn("cpu")) =>
        LET name == sections.cpu.processor_name
            info == consumed.cpu.cpuinfo
        IN  /\ name # ""
            /\ (CPUINFO_AVAILABLE /\ ~info.raised
                  /\ "brand_raw" \in DOMAIN info.value
                  /\ info.value.brand_raw # "") => name = info.value.brand_raw
            /\ (~CPUINFO_AVAILABLE \/ info.raised) => name = PlatformName

CpuBaseFields == {"physical_cores", "logical_cores", "processor_name"}
SystemFields == {"system_name", "node_name", "os_release", "os_version",
                 "machine_type", "processor"}
MemoryFields == {"total_gb", "available_gb", "used_gb", "utilization_percent"}
GpuFields == {"id", "name", "memory_total_mb", "memory_used_mb",
              "memory_free_mb", "gpu_utilization_percent", "temperature_c"}

\* the sections of a snapshot other than cpu carry the field names of the
\* data model
OtherSectionsAsSpecified(snapshot) ==
    /\ DOMAIN snapshot = {"system", "cpu", "memory", "disk", "gpu"}
    /\ DOMAIN snapshot.system = SystemFields
    /\ DOMAIN snapshot.memory = MemoryFields
    /\ DOMAIN snapshot.disk \in {DiskFields, {"error"}}
    /\ IF snapshot.gpu.type = "list"
       THEN \A i \in 1..Len(snapshot.gpu.items) :
                DOMAIN snapshot.gpu.items[i] = GpuFields
       ELSE DOMAIN snapshot.gpu.items = {"status"}

FrequencyExposed == consumed.cpu.cpu_freq.value.type # "NoneType"

EntriesMatch(gpus, gpu) ==
    /\ gpu.type = "list"
    /\ Len(gpu.items) = Len(gpus)
    /\ \A i \in 1..Len(gpus) :
          /\ gpu.items[i].id = gpus[i].id
          /\ gpu.items[i].name = gpus[i].name
          /\ gpu.items[i].temperature_c = gpus[i].temperature
          /\ IsFloat(gpus[i].load)
          /\ gpu.items[i].gpu_utilization_percent.eighths
                = gpus[i].load.eighths * 100
          /\ (gpus[i].load.eighths \in 0..8) =>
                gpu.items[i].gpu_utilization_percent.eighths \in 0..800

\* C10 as stated: when enumeration succeeds with n >= 1 devices, the result
\* is a list of exactly n entries in enumeration order, each with its
\* device's id, name and temperature unchanged and the load times 100.
C10_GpuList ==
    (Done("gpu") /\ Enumerated /\ ~consumed.gpu.raised
        /\ Len(consumed.gpu.value) >= 1) =>
        EntriesMatch(consumed.gpu.value, sections.gpu)

\* C10 amended: the same, provided the conversion of every device's fields
\* succeeds (otherwise the result is the status record of C5).
C10_GpuListWhenConvertible ==
    (Done("gpu") /\ Enumerated /\ ~consumed.gpu.raised
        /\ Len(consumed.gpu.value) >= 1
        /\ \A i \in 1..Len(consumed.gpu.value) : Convertible(consumed.gpu.value[i])) =>
        EntriesMatch(consumed.gpu.value, sections.gpu)

\* two distinct devices, returned in enumeration order
C10_Witness ==
    /\ pc = "returned" /\ Enumerated /\ ~consumed.gpu.raised
    /\ Len(consumed.gpu.value) = 2
    /\ consumed.gpu.value[1].id = 1 /\ consumed.gpu.value[2].id = 0
    /\ result.value.gpu.type = "list"
    /\ result.value.gpu.items[1].id = 1
    /\ result.value.gpu.items[2].gpu_utilization_percent = PyFloat(300)

----------------------------------------------------------------------------
\* C8: for every non-negative byte count, bytes_to_gb's result in hundredths
\* of a gigabyte is an integer nearest to bytes * 100 / 2^30 (at most one half
\* away from it); bytes_to_gb(1073741824) = 1.0 and bytes_to_gb(0) = 0.0.
\* With h = 100 * hi + hh and 25 * lo = t * 2^14 + v (14-bit limbs), the
\* distance is |hh * 2^28 - 25 * lo| / 2^28.
NearestHundredth(b, h) ==
    LET hh == h - 100 * b.hi
        a  == b.lo \div Pow2(14)
        c  == b.lo % Pow2(14)
        t  == 25 * a + (25 * c) \div Pow2(14)
        v  == (25 * c) % Pow2(14)
        m  == hh * Pow2(14) - t
    IN  /\ hh \in -1..101
        /\ m \in -(Pow2(13) + 1)..(Pow2(13) + 1)
        /\ m * Pow2(14) - v <= Pow2(27)
        /\ v - m * Pow2(14) <= Pow2(27)

C8_BytesToGbNearest ==
    pc = "bytes_to_gb_done" =>
        /\ NearestHundredth(bytes_value, gb.hundredths)
        /\ (bytes_value = Bytes(1, 0) => gb = Rounded(100))
        /\ (bytes_value = Bytes(0, 0) => gb = Rounded(0))

\* the same statement for the byte counts below 2^53 only
BytesToGbNearestBelow2p53 ==
    (pc = "bytes_to_gb_done" /\ bytes_value.hi < Pow2(23)) =>
        /\ NearestHundredth(bytes_value, gb.hundredths)
        /\ (bytes_value = Bytes(1, 0) => gb = Rounded(100))
        /\ (bytes_value = Bytes(0, 0) => gb = Rounded(0))

====
